---- MODULE Spec2Model ----
(***************************************************************************)
(* Model of the Artnet class (Art-Net v4 sender): per-universe DMX state,  *)
(* the 25 ms send throttle with its delayed replay, the keep-alive         *)
(* interval timer and close().  One action per public operation and per    *)
(* timer callback of the event loop; every method called by a handler is   *)
(* an operator on the record `s` of the instance's fields.                  *)
(*                                                                         *)
(* Modelling conventions                                                    *)
(*  - A timer slot (interval[u], sendThrottle[u]) is "none" when the array  *)
(*    entry is undefined, "armed" when it holds a pending timer handle and  *)
(*    "cleared" when it holds a handle that clearTimeout/clearInterval      *)
(*    cancelled: close() cancels the timers but leaves the handles in the   *)
(*    arrays, so the entries stay truthy.                                   *)
(*  - sendRefresh[u]/sendCallback[u] are the constants captured by the      *)
(*    closure of the throttle timeout of universe u.                        *)
(*  - A completion handler is identified by the number of the API call      *)
(*    that supplied it; NoCallback stands for undefined.                    *)
(*  - data[u] is kept on the indices the callers of the model write        *)
(*    (Idx); every other slot keeps its initial value: 0 in the 512       *)
(*    channels Array(512).fill(0) creates, Undefined beyond them.           *)
(*    dataLength[u] is the JavaScript length of the array.                  *)
(*  - dgram's Socket.send and Socket.close throw ERR_SOCKET_DGRAM_NOT_     *)
(*    RUNNING on a closed socket; the model records the throw in `step`.    *)
(*  - `step` and `hist` are history variables: they record what the last   *)
(*    handler did and what happened so far, and never influence the        *)
(*    program state.                                                        *)
(*  - Callers always pass send(universe, refresh, callback) and numbers as *)
(*    values; the (universe, callback) overload of send and the typeof     *)
(*    tests of set are not exercised.                                       *)
(*                                                                         *)
(* Specifications                                                           *)
(*  Spec     : calls on every universe (scheduler across universes)         *)
(*  SpecSet  : longer runs of the same calls on universe 0                  *)
(*  SpecData : calls on universe 0 that write lists in and beyond the       *)
(*             512 channels                                                 *)
(*  SpecStore : calls on universe 0 that write lists and single values     *)
(*              within the 512 channels                                    *)
(*  SpecLive  : calls on universe 0 of an instance that is never closed,   *)
(*              with throttle timers that fire                             *)
(*  SpecConfig    : setHost/setPort next to a sending universe              *)
(*  SpecDiscover  : discoverNodes sessions, also overlapping ones           *)
(*  SpecDiscoverFair : SpecDiscover under a fair event loop                 *)
(*  SpecCodec     : the packet encoders and parseArtPollReply as pure       *)
(*                  functions of inputs drawn in Init                       *)
(***************************************************************************)
EXTENDS Integers, Sequences, FiniteSets, TLC

\* ---------------------------------------------------------------- bounds
MaxUniverse == 1
MaxCalls == 2
MaxSetCalls == 4
MaxDataCalls == 2
MaxStoreCalls == 3
MaxLiveCalls == 3
MaxTicks == 1
MaxConfigCalls == 3
MaxConfigSends == 1
MaxSessions == 2
MaxDatagrams == 2

\* ------------------------------------------------------ program constants
DmxChannels == 512
NoCallback == 0
\* the value of an array slot that was never assigned
Undefined == -1

Max(a, b) == IF a >= b THEN a ELSE b
Min(a, b) == IF a <= b THEN a ELSE b

Universes == 0..MaxUniverse
Values == {0, 1}
\* first channels a caller writes to: the first channel, the last channel
\* of the buffer, and one far beyond the buffer (indices are not checked)
StartChannels == {1, DmxChannels, 65535}
\* a single value, or a list of one or two values
SingleValues == [{1} -> Values]
ValueLists == SingleValues \cup [{1, 2} -> Values]
Idx == {c + i - 2 : c \in StartChannels, i \in {1, 2}}
CallIds ==
    1..Max(Max(MaxCalls, Max(MaxStoreCalls, MaxLiveCalls)),
           Max(MaxSetCalls, MaxDataCalls))
Callbacks == {NoCallback} \cup CallIds
Slots == {"none", "armed", "cleared"}

VARIABLES
    sendAll,        \* config flag
    data,           \* data[u][index]
    dataLength,     \* data[u].length
    dataChanged,    \* dataChanged[u]
    interval,       \* interval[u] : slot of the keep-alive timer
    sendThrottle,   \* sendThrottle[u] : slot of the throttle timer
    sendRefresh,    \* refresh flag captured by the throttle closure
    sendCallback,   \* callback captured by the throttle closure
    sendDelayed,    \* sendDelayed[u]
    socket,         \* "open" | "closed"
    nextId,         \* number of set/send calls made so far
    ticks,          \* number of keep-alive callbacks run so far
    step,           \* summary of the last handler that ran
    hist,           \* accumulated history (see HistInit)
    host,           \* this.host
    port,           \* this.port
    cfgStep,        \* summary of the last setHost/setPort call
    codec,          \* input, operation and output of the last codec call
    discoveredNodes, \* this.discoveredNodes
    sessions,       \* sessions[k] : the k-th discoverNodes invocation
    discStep,       \* summary of the last discovery step
    config,         \* the config object the constructor was called with
    transport       \* bind state and broadcast mode of this.socket

progVars == <<sendAll, data, dataLength, dataChanged, interval, sendThrottle,
              sendRefresh, sendCallback, sendDelayed, socket>>
vars == <<sendAll, data, dataLength, dataChanged, interval, sendThrottle,
          sendRefresh, sendCallback, sendDelayed, socket, nextId, ticks, step,
          hist, host, port, cfgStep, codec, discoveredNodes, sessions,
          discStep, config, transport>>
\* the variables the scheduler's handlers never assign
restVars == <<host, port, cfgStep, codec, discoveredNodes, sessions, discStep,
              config, transport>>
ctorVars == <<config, transport>>
schedVars == <<sendAll, data, dataLength, dataChanged, interval, sendThrottle,
               sendRefresh, sendCallback, sendDelayed, socket, nextId, ticks,
               step, hist>>
discVars == <<discoveredNodes, sessions, discStep>>

\* the instance's fields as one record, so that methods are operators
Self ==
    [sendAll |-> sendAll, data |-> data, dataLength |-> dataLength,
     dataChanged |-> dataChanged, interval |-> interval,
     sendThrottle |-> sendThrottle, sendRefresh |-> sendRefresh,
     sendCallback |-> sendCallback, sendDelayed |-> sendDelayed,
     socket |-> socket]

Commit(s) ==
    /\ sendAll' = s.sendAll
    /\ data' = s.data
    /\ dataLength' = s.dataLength
    /\ dataChanged' = s.dataChanged
    /\ interval' = s.interval
    /\ sendThrottle' = s.sendThrottle
    /\ sendRefresh' = s.sendRefresh
    /\ sendCallback' = s.sendCallback
    /\ sendDelayed' = s.sendDelayed
    /\ socket' = s.socket
    /\ UNCHANGED restVars

\* ------------------------------------------------------------ the methods

\* startRefresh(universe): interval[universe] = setInterval(...)
startRefresh(s, universe) ==
    [s EXCEPT !.interval[universe] = "armed"]

\* the refresh argument the keep-alive callback passes: send(universe, 512);
\* send only tests its truthiness
RefreshTickArg == TRUE

\* variant: the global override is not applied
effectiveRefresh_ignoreSendAll(s, refresh) ==
    refresh

\* if (this.sendAll) refresh = true
effectiveRefresh(s, refresh) ==
    IF s.sendAll THEN TRUE ELSE refresh

\* if (!this.interval[universe]) this.startRefresh(universe)
ensureRefresh(s, universe) ==
    IF s.interval[universe] = "none" THEN startRefresh(s, universe) ELSE s

\* variant: the open window is not honoured
throttled_never(s, universe) ==
    FALSE

\* if (this.sendThrottle[universe]) : the entry is truthy
throttled(s, universe) ==
    s.sendThrottle[universe] # "none"

\* variant: a coalesced request replaces the arguments the closure holds
coalesce_overwrite(s, universe, refresh, callback) ==
    [s EXCEPT !.sendDelayed[universe] = TRUE,
              !.sendRefresh[universe] = refresh,
              !.sendCallback[universe] = callback]

\* variant: a coalesced request is dropped without a trace
coalesce_noFlag(s, universe, refresh, callback) ==
    s

\* this.sendDelayed[universe] = true; return
coalesce(s, universe, refresh, callback) ==
    [s EXCEPT !.sendDelayed[universe] = TRUE]

\* variant: one throttle window for the whole instance
openWindow_shared(s, universe, refresh, callback) ==
    [s EXCEPT !.sendThrottle = [v \in DOMAIN @ |-> "armed"],
              !.sendRefresh[universe] = refresh,
              !.sendCallback[universe] = callback]

\* sendThrottle[universe] = setTimeout(closure over sendRefresh, sendCallback)
openWindow(s, universe, refresh, callback) ==
    [s EXCEPT !.sendThrottle[universe] = "armed",
              !.sendRefresh[universe] = refresh,
              !.sendCallback[universe] = callback]

\* variant: no fallback to the full frame when nothing changed
sendLength_noFallback(s, universe, refresh) ==
    IF refresh THEN DmxChannels ELSE s.dataChanged[universe]

\* "Enforce minimum length"
sendLength(s, universe, refresh) ==
    IF refresh
    THEN DmxChannels
    ELSE IF s.dataChanged[universe] > 0
         THEN s.dataChanged[universe]
         ELSE DmxChannels

\* variant: an odd length is made even by dropping a byte
artdmxPackage_roundDown(s, universe, length) ==
    LET len == IF length % 2 = 1 THEN length - 1 ELSE length
        hUni == (universe \div 256) % 256
        lUni == universe % 256
        hLen == (len \div 256) % 256
        lLen == len % 256
        lengthBytes == hLen * 256 + lLen
    IN [hUni |-> hUni, lUni |-> lUni, hLen |-> hLen, lLen |-> lLen,
        payload |-> Min(lengthBytes, s.dataLength[universe])]

\* artdmxPackage(universe, length): the header bytes that vary and the
\* number of payload bytes, data[universe].slice(0, lengthBytes)
artdmxPackage(s, universe, length) ==
    LET len == IF length % 2 = 1 THEN length + 1 ELSE length
        hUni == (universe \div 256) % 256
        lUni == universe % 256
        hLen == (len \div 256) % 256
        lLen == len % 256
        lengthBytes == hLen * 256 + lLen
    IN [hUni |-> hUni, lUni |-> lUni, hLen |-> hLen, lLen |-> lLen,
        payload |-> Min(lengthBytes, s.dataLength[universe])]

\* what one call of a method reports besides the new fields: the frames
\* handed to the socket, whether the request was coalesced, whether the
\* call threw
Frame(universe, refresh, callback, dirty, buf) ==
    [universe |-> universe, refresh |-> refresh, callback |-> callback,
     dirty |-> dirty, length |-> buf.hLen * 256 + buf.lLen,
     payload |-> buf.payload]

\* variant: the change counter survives the transmission
resetChanged_skip(s, universe) ==
    s

\* this.dataChanged[universe] = 0
resetChanged(s, universe) ==
    [s EXCEPT !.dataChanged[universe] = 0]

\* send(universe, refresh, callback)
send(s, universe, refreshArg, callback) ==
    LET refresh == effectiveRefresh(s, refreshArg)
        s1 == ensureRefresh(s, universe)
    IN IF throttled(s1, universe)
       THEN [s |-> coalesce(s1, universe, refresh, callback),
             tx |-> <<>>, coalesced |-> TRUE, threw |-> FALSE]
       ELSE LET s2 == openWindow(s1, universe, refresh, callback)
                length == sendLength(s2, universe, refresh)
                buf == artdmxPackage(s2, universe, length)
                s3 == resetChanged(s2, universe)
                frame == Frame(universe, refresh, callback,
                               s2.dataChanged[universe], buf)
            IN IF s3.socket = "open"
               THEN [s |-> s3, tx |-> <<frame>>, coalesced |-> FALSE,
                     threw |-> FALSE]
               ELSE [s |-> s3, tx |-> <<>>, coalesced |-> FALSE,
                     threw |-> TRUE]

\* the loop of set over the supplied values; i is the 1-based position, so
\* index = channel + (i - 1) - 1.  A single number takes the same path as a
\* list of one value (index = channel - 1, dataChanged = channel).
\* variant: every write counts as a change
differs_always(stored, value) ==
    TRUE

\* this.data[universe][index] !== value
differs(stored, value) ==
    stored # value

\* variant: the last changed index wins
raiseChanged_last(changed, index) ==
    index + 1

\* if (index + 1 > this.dataChanged[universe]) dataChanged[universe] = index + 1
raiseChanged(changed, index) ==
    IF index + 1 > changed THEN index + 1 ELSE changed

RECURSIVE writeValues(_, _, _, _, _)
writeValues(s, universe, channel, values, i) ==
    IF i > Len(values)
    THEN s
    ELSE LET index == channel + (i - 1) - 1
             s1 == IF differs(s.data[universe][index], values[i])
                   THEN [s EXCEPT
                          !.data[universe][index] = values[i],
                          !.dataLength[universe] =
                              Max(s.dataLength[universe], index + 1),
                          !.dataChanged[universe] =
                              raiseChanged(s.dataChanged[universe], index)]
                   ELSE s
         IN writeValues(s1, universe, channel, values, i + 1)

\* variant: set never sends
setSends_never(s, universe) ==
    FALSE

\* if (this.dataChanged[universe]) send(...) else callback(null, undefined)
setSends(s, universe) ==
    s.dataChanged[universe] # 0

\* set(universe, channel, value | values, callback)
set(s, universe, channel, values, callback) ==
    LET s1 == writeValues(s, universe, channel, values, 1)
        changed == s1.data[universe] # s.data[universe]
    IN IF setSends(s1, universe)
       THEN LET r == send(s1, universe, FALSE, callback)
            IN [s |-> r.s, tx |-> r.tx, coalesced |-> r.coalesced,
                threw |-> r.threw, requested |-> TRUE,
                invoked |-> NoCallback, changed |-> changed]
       ELSE [s |-> s1, tx |-> <<>>, coalesced |-> FALSE, threw |-> FALSE,
             requested |-> FALSE, invoked |-> callback, changed |-> changed]

\* variant: the delayed flag survives the replay
clearDelayed_skip(s, universe) ==
    s

\* this.sendDelayed[universe] = false
clearDelayed(s, universe) ==
    [s EXCEPT !.sendDelayed[universe] = FALSE]

\* variant: the timer callback never replays
delayed_never(s, universe) ==
    FALSE

\* if (this.sendDelayed[universe])
delayed(s, universe) ==
    s.sendDelayed[universe]

\* variant: the timer callback leaves the window open
throttleTimeout_keepOpen(s, universe) ==
    IF delayed(s, universe)
    THEN LET s2 == clearDelayed(s, universe)
             r == send(s2, universe, s.sendRefresh[universe],
                       s.sendCallback[universe])
         IN [s |-> r.s, tx |-> r.tx, coalesced |-> r.coalesced,
             threw |-> r.threw, reissued |-> TRUE,
             refresh |-> s.sendRefresh[universe],
             callback |-> s.sendCallback[universe]]
    ELSE [s |-> [s EXCEPT !.sendThrottle[universe] = "none"], tx |-> <<>>,
          coalesced |-> FALSE, threw |-> FALSE, reissued |-> FALSE,
          refresh |-> FALSE, callback |-> NoCallback]

\* the callback of the throttle timeout
throttleTimeout(s, universe) ==
    LET s1 == [s EXCEPT !.sendThrottle[universe] = "none"]
    IN IF delayed(s1, universe)
       THEN LET s2 == clearDelayed(s1, universe)
                r == send(s2, universe, s.sendRefresh[universe],
                          s.sendCallback[universe])
            IN [s |-> r.s, tx |-> r.tx, coalesced |-> r.coalesced,
                threw |-> r.threw, reissued |-> TRUE,
                refresh |-> s.sendRefresh[universe],
                callback |-> s.sendCallback[universe]]
       ELSE [s |-> s1, tx |-> <<>>, coalesced |-> FALSE, threw |-> FALSE,
             reissued |-> FALSE, refresh |-> FALSE, callback |-> NoCallback]

\* close(): clearInterval / clearTimeout of every handle, then
\* socket.close(), which throws when the socket is closed already
clearAll(slots) ==
    [u \in Universes |-> IF slots[u] = "armed" THEN "cleared" ELSE slots[u]]

\* for (const interval of this.interval) clearInterval(interval)
clearIntervals(s) ==
    [s EXCEPT !.interval = clearAll(s.interval)]

\* variant: the throttle timers are left running
clearThrottles_skip(s) ==
    s

\* for (const throttle of this.sendThrottle) clearTimeout(throttle)
clearThrottles(s) ==
    [s EXCEPT !.sendThrottle = clearAll(s.sendThrottle)]

close(s) ==
    [s |-> [clearThrottles(clearIntervals(s)) EXCEPT !.socket = "closed"],
     threw |-> s.socket = "closed"]

\* ------------------------------------------------------ history variables
Sat(n) == Min(n, 3)
Sat2(n) == Min(n, 2)

NoBurst ==
    [nreq |-> 0, ntx |-> 0, refresh |-> FALSE, callback |-> NoCallback,
     expired |-> FALSE, faithful |-> TRUE, closedAtOpen |-> FALSE]

\* the indices of the 512 channels among the indices written
Channels == {i \in Idx : i < DmxChannels}

HistInit ==
    [txInWindow |-> [u \in Universes |-> 0],
     burst |-> [u \in Universes |-> NoBurst],
     written |-> [u \in Universes |-> FALSE],
     requested |-> [u \in Universes |-> FALSE],
     tickPending |-> [u \in Universes |-> FALSE],
     calledAfterClose |-> FALSE,
     coalescedIds |-> {},
     handed |-> [i \in CallIds |-> 0],
     invoked |-> {},
     receiver |-> [u \in Universes |-> [i \in Channels |-> 0]],
     pending |-> [u \in Universes |-> {}]]

PreOf(u) ==
    [socket |-> socket, interval |-> interval[u],
     sendThrottle |-> sendThrottle[u], sendDelayed |-> sendDelayed[u],
     dataChanged |-> dataChanged[u], sendRefresh |-> sendRefresh[u],
     sendCallback |-> sendCallback[u], tickPending |-> hist.tickPending[u],
     written |-> hist.written[u]]

PreNone ==
    [socket |-> socket, interval |-> "none", sendThrottle |-> "none",
     sendDelayed |-> FALSE, dataChanged |-> 0, sendRefresh |-> FALSE,
     sendCallback |-> NoCallback, tickPending |-> FALSE, written |-> FALSE]

StepInit ==
    [op |-> "init", universe |-> -1, id |-> 0, refresh |-> FALSE,
     callback |-> NoCallback, changed |-> FALSE, requested |-> FALSE,
     coalesced |-> FALSE, reissued |-> FALSE, tx |-> <<>>, threw |-> FALSE,
     invoked |-> NoCallback, pre |-> PreNone]

\* frames of a step that carry the handler of call i
HandedTo(tx, i) == Cardinality({k \in DOMAIN tx : tx[k].callback = i})

\* the burst of a universe: the request that found the throttle window
\* closed (the opener, with the refresh flag and handler it was called
\* with), the requests coalesced after it, and the frames transmitted
\* since, until the next request that finds the window closed
EffRefresh(b) == sendAll \/ b.refresh

FramesUse(tx, refresh, callback) ==
    \A k \in DOMAIN tx : tx[k].refresh = refresh /\ tx[k].callback = callback

BurstNext(b, st) ==
    IF st.requested /\ ~st.reissued
    THEN IF st.coalesced
         THEN [b EXCEPT !.nreq = Sat(b.nreq + 1)]
         ELSE [nreq |-> 1, ntx |-> Len(st.tx),
               refresh |-> st.refresh, callback |-> st.callback,
               expired |-> FALSE,
               faithful |-> FramesUse(st.tx, sendAll \/ st.refresh,
                                      st.callback),
               closedAtOpen |-> st.pre.socket = "closed"]
    ELSE IF st.op = "expire"
         THEN [b EXCEPT !.expired = TRUE,
                        !.ntx = Sat(b.ntx + Len(st.tx)),
                        !.faithful =
                            b.faithful
                            /\ FramesUse(st.tx, EffRefresh(b), b.callback)]
         ELSE b

HistNext(h, st) ==
    LET u == st.universe
        n == Len(st.tx)
    IN IF st.op = "close"
       THEN [h EXCEPT !.calledAfterClose =
                          h.calledAfterClose \/ st.pre.socket = "closed"]
       ELSE [h EXCEPT
              !.txInWindow[u] =
                  IF st.op = "expire" THEN n ELSE Sat2(h.txInWindow[u] + n),
              !.burst[u] = BurstNext(h.burst[u], st),
              !.written[u] = h.written[u] \/ st.op = "set",
              !.requested[u] =
                  h.requested[u] \/ (st.requested /\ ~st.reissued),
              !.tickPending[u] =
                  IF st.op = "expire" THEN FALSE
                  ELSE h.tickPending[u] \/ (st.op = "tick" /\ st.coalesced),
              !.calledAfterClose =
                  h.calledAfterClose
                  \/ (st.op \in {"send", "set"} /\ st.pre.socket = "closed"),
              !.coalescedIds =
                  IF st.op \in {"send", "set"} /\ st.coalesced
                     /\ st.callback # NoCallback
                  THEN h.coalescedIds \cup {st.callback}
                  ELSE h.coalescedIds,
              !.handed = [i \in CallIds |->
                             Sat2(h.handed[i] + HandedTo(st.tx, i))],
              !.invoked =
                  IF st.invoked # NoCallback
                  THEN h.invoked \cup {st.invoked}
                  ELSE h.invoked]

\* ------------------------------------------------------------------ codec
\* JavaScript's bit operators on the non-negative values that occur here
\* (all below 2^16, so the 32-bit wrap of << is never reached)
RECURSIVE BitAnd(_, _)
BitAnd(a, b) ==
    IF a = 0 \/ b = 0
    THEN 0
    ELSE (a % 2) * (b % 2) + 2 * BitAnd(a \div 2, b \div 2)

RECURSIVE BitOr(_, _)
BitOr(a, b) ==
    IF a = 0 THEN b
    ELSE IF b = 0 THEN a
    ELSE Max(a % 2, b % 2) + 2 * BitOr(a \div 2, b \div 2)

Shl(a, k) == a * (2 ^ k)
Shr(a, k) == a \div (2 ^ k)

\* Buffer.from(array) stores every element modulo 256
ToByte(v) == v % 256
BufferFrom(array) == [k \in 1..Len(array) |-> ToByte(array[k])]

\* buf[i] for a byte offset i (offsets count from 0, sequences from 1)
ByteAt(buf, i) == buf[i + 1]

\* data[universe][i] ?? 0 on the sparse representation of the array
ValueAt(d, i) == IF i \in DOMAIN d /\ d[i] # Undefined THEN d[i] ELSE 0

\* the Buffer artdmxPackage(universe, length) returns
artdmxBuffer_bigEndianUniverse(s, universe, length) ==
    LET p == artdmxPackage(s, universe, length)
        header == <<65, 114, 116, 45, 78, 101, 116, 0, 0, 80, 0, 14, 0, 0,
                    p.hUni, p.lUni, p.hLen, p.lLen>>
        cleanDmx == [k \in 1..p.payload |-> ValueAt(s.data[universe], k - 1)]
    IN BufferFrom(header \o cleanDmx)

artdmxBuffer(s, universe, length) ==
    LET p == artdmxPackage(s, universe, length)
        header == <<65, 114, 116, 45, 78, 101, 116, 0, 0, 80, 0, 14, 0, 0,
                    p.lUni, p.hUni, p.hLen, p.lLen>>
        cleanDmx == [k \in 1..p.payload |-> ValueAt(s.data[universe], k - 1)]
    IN BufferFrom(header \o cleanDmx)

\* a receiver without loss: it starts from 512 zeros and overwrites the
\* prefix each frame covers with the bytes of the frame, which are the
\* stored values d of the universe when the frame is built
RECURSIVE Receive(_, _, _, _)
Receive(rx, tx, d, k) ==
    IF k > Len(tx)
    THEN rx
    ELSE LET u == tx[k].universe
             rx1 == [rx EXCEPT ![u] =
                        [i \in Channels |->
                            IF i < tx[k].payload
                            THEN ToByte(ValueAt(d[u], i))
                            ELSE rx[u][i]]]
         IN Receive(rx1, tx, d, k + 1)

\* the channels a set changed that no frame has covered since: a step adds
\* the channels whose stored value it changed (from d to d1) and removes
\* those the payload of a frame it transmitted covers
Pending(pending, st, d, d1) ==
    [u \in Universes |->
        IF u # st.universe
        THEN pending[u]
        ELSE LET changed == IF st.op = "set"
                            THEN {i \in Channels : d1[u][i] # d[u][i]}
                            ELSE {}
                 covered == {i \in Channels :
                                \E k \in DOMAIN st.tx : i < st.tx[k].payload}
             IN (pending[u] \cup changed) \ covered]

\* a step leaves its summary, the history, what the receiver holds and
\* the changes that wait for a frame
Record(st) ==
    /\ step' = st
    /\ hist' = [HistNext(hist, st) EXCEPT
                    !.receiver = Receive(hist.receiver, st.tx, data', 1),
                    !.pending = Pending(hist.pending, st, data, data')]

\* triggerPackage(oem, key, subkey)
triggerPackage(oem, key, subkey) ==
    LET hOem == BitAnd(Shr(oem, 8), 255)
        lOem == BitAnd(oem, 255)
        header == <<65, 114, 116, 45, 78, 101, 116, 0, 0, 153, 0, 14, 0, 0,
                    hOem, lOem, key, subkey>>
        payload == [k \in 1..DmxChannels |-> 0]
    IN BufferFrom(header \o payload)

\* createArtPollPacket()
createArtPollPacket ==
    BufferFrom(<<65, 114, 116, 45, 78, 101, 116, 0, 32, 0, 20, 0, 0, 0>>)

compose_noSub(net, sub, nibble) ==
    BitOr(Shl(net, 8), BitAnd(nibble, 15))

\* compose(nibble) of parseArtPollReply, with the net and sub it closes over
compose(net, sub, nibble) ==
    BitOr(BitOr(Shl(net, 8), Shl(sub, 4)), BitAnd(nibble, 15))

\* parseArtPollReply(msg); shortName and longName are left out
parseArtPollReply(msg) ==
    LET length == Len(msg)
        nodeIp == IF length >= 14
                  THEN <<ByteAt(msg, 10), ByteAt(msg, 11), ByteAt(msg, 12),
                         ByteAt(msg, 13)>>
                  ELSE <<0, 0, 0, 0>>
        net == IF length > 18 THEN BitAnd(ByteAt(msg, 18), 127) ELSE 0
        sub == IF length > 19 THEN BitAnd(ByteAt(msg, 19), 15) ELSE 0
        portCount == IF length > 173
                     THEN BitOr(Shl(ByteAt(msg, 172), 8), ByteAt(msg, 173))
                     ELSE 0
        swInBytes == IF length >= 190
                     THEN [k \in 1..4 |-> ByteAt(msg, 185 + k)]
                     ELSE <<>>
        swOutBytes == IF length >= 194
                      THEN [k \in 1..4 |-> ByteAt(msg, 189 + k)]
                      ELSE <<>>
        universesIn == [k \in DOMAIN swInBytes |->
                          compose(net, sub, BitAnd(swInBytes[k], 15))]
        universesOut == [k \in DOMAIN swOutBytes |->
                          compose(net, sub, BitAnd(swOutBytes[k], 15))]
        universe == IF universesIn # <<>>
                    THEN universesIn[1]
                    ELSE compose(net, sub,
                                 IF length > 186
                                 THEN BitAnd(ByteAt(msg, 186), 15)
                                 ELSE 0)
    IN [nodeIp |-> nodeIp, portCount |-> portCount, universe |-> universe,
        universesIn |-> universesIn, universesOut |-> universesOut]

\* ---------------------------------------------------------- configuration
\* config.host ?? "255.255.255.255", config.port ?? 6454
GlobalBroadcast == "255.255.255.255"
ArtNetPort == 6454
\* hosts a caller configures: the global broadcast address, a directed
\* broadcast address and a unicast address
Hosts == {GlobalBroadcast, "10.0.0.255", "10.0.0.7"}
Ports == {ArtNetPort, 6455, 0}

\* the two configuration fields as one record
Config == [host |-> host, port |-> port]

\* setHost(host)
setHost(c, h) == [c |-> [c EXCEPT !.host = h], threw |-> FALSE]

setPort_unguarded(c, p) == [c |-> [c EXCEPT !.port = p], threw |-> FALSE]

\* setPort(port): throws while the host is the global broadcast address
setPort(c, p) ==
    IF c.host = GlobalBroadcast
    THEN [c |-> c, threw |-> TRUE]
    ELSE [c |-> [c EXCEPT !.port = p], threw |-> FALSE]

\* cfgStep: n = number of configuration calls so far, op/arg/threw = the
\* last call and whether it threw, refused = ports a setPort was refused for
CfgStepInit ==
    [n |-> 0, op |-> "init", arg |-> 0, threw |-> FALSE, refused |-> {}]

ConfigInit(hosts, ports) ==
    /\ host \in hosts
    /\ port \in ports
    /\ cfgStep = CfgStepInit

\* config.interface: undefined, or the address of a local interface
NoInterface == ""
Interfaces == {NoInterface, "10.0.0.1"}

\* the octets of the hosts, for host.endsWith(".255")
Octets(h) ==
    CASE h = GlobalBroadcast -> <<255, 255, 255, 255>>
      [] h = "10.0.0.255" -> <<10, 0, 0, 255>>
      [] OTHER -> <<10, 0, 0, 7>>
endsWith255(h) == Octets(h)[4] = 255

\* nothing bound, broadcast mode off: the socket createSocket returns
Unbound == [bind |-> "none", address |-> "", broadcast |-> FALSE]

constructorBind_globalOnly(h, iface) ==
    IF h = GlobalBroadcast
    THEN [Unbound EXCEPT !.bind = "binding",
                         !.address = IF iface # NoInterface THEN iface
                                     ELSE "0.0.0.0"]
    ELSE Unbound

\* the two bind branches of the constructor; "binding" until the callback
\* of bind runs
constructorBind(h, iface) ==
    IF iface # NoInterface /\ h = GlobalBroadcast
    THEN [Unbound EXCEPT !.bind = "binding", !.address = iface]
    ELSE IF endsWith255(h)
    THEN [Unbound EXCEPT !.bind = "binding", !.address = "0.0.0.0"]
    ELSE Unbound

\* the callback of bind: this.socket.setBroadcast(true)
bindCallback(tr) == [tr EXCEPT !.bind = "bound", !.broadcast = TRUE]

\* the rest of the constructor, for a config with one of these interfaces
TransportInit(ifaces) ==
    \E iface \in ifaces :
        /\ config = [host |-> host, port |-> port, iface |-> iface]
        /\ transport = constructorBind(host, iface)

\* no codec call made
CodecIdle == [op |-> "none", in |-> <<>>, out |-> <<>>]

\* ---------------------------------------------------------------- discovery
\* sessions[k] describes the k-th invocation of discoverNodes:
\*   sock     : its socket, "none" before the invocation, "binding" until the
\*              callback of bind runs, then "bound", "closed" after close()
\*   timer    : its timeout timer, "none" | "armed" | "fired"
\*   polls    : ArtPoll packets handed to its socket
\*   resolves : calls of its promise's resolve
\*   result   : the list the promise resolved with
\*   own, first, late are history: the first valid reply of every source
\*   IP that its own socket delivered, the first valid reply of every source
\*   IP that any socket of the instance delivered between the invocation and
\*   the firing of its timer, and whether its message handler ran after the
\*   promise resolved
Sessions == 1..MaxSessions
NoSession ==
    [sock |-> "none", timer |-> "none", polls |-> 0, resolves |-> 0,
     result |-> <<>>, own |-> <<>>, first |-> <<>>, late |-> FALSE]

\* n = datagrams delivered so far; the rest describes the last step
DiscStepInit ==
    [n |-> 0, op |-> "init", k |-> 0, kind |-> "none", address |-> "",
     port |-> 0, threw |-> FALSE]

\* discoveredNodes = [] of the class body, no discoverNodes call made
DiscoveryInit ==
    /\ discoveredNodes = <<>>
    /\ sessions = [k \in Sessions |-> NoSession]
    /\ discStep = DiscStepInit

\* ------------------------------------------------------------------ model
SchedulerInit ==
    /\ sendAll \in BOOLEAN
    /\ data = [u \in Universes |->
                  [i \in Idx |-> IF i < DmxChannels THEN 0 ELSE Undefined]]
    /\ dataLength = [u \in Universes |-> DmxChannels]
    /\ dataChanged = [u \in Universes |-> 0]
    /\ interval = [u \in Universes |-> "none"]
    /\ sendThrottle = [u \in Universes |-> "none"]
    /\ sendRefresh = [u \in Universes |-> FALSE]
    /\ sendCallback = [u \in Universes |-> NoCallback]
    /\ sendDelayed = [u \in Universes |-> FALSE]
    /\ socket = "open"
    /\ nextId = 0
    /\ ticks = 0
    /\ step = StepInit
    /\ hist = HistInit

\* new Artnet(): the scheduler specifications run on the default host and port
Init ==
    /\ SchedulerInit
    /\ ConfigInit({GlobalBroadcast}, {ArtNetPort})
    /\ TransportInit({NoInterface})
    /\ codec = CodecIdle
    /\ DiscoveryInit

\* artnet.send(universe, refresh, callback); the caller passes a handler
\* of its own, identified by the number of the call
SendOn(universes, maxCalls) ==
    \E universe \in universes, refresh \in BOOLEAN :
        /\ nextId < maxCalls
        /\ LET id == nextId + 1
               r == send(Self, universe, refresh, id)
           IN /\ Commit(r.s)
              /\ nextId' = id
              /\ ticks' = ticks
              /\ Record([op |-> "send", universe |-> universe, id |-> id,
                         refresh |-> refresh, callback |-> id,
                         changed |-> FALSE, requested |-> TRUE,
                         coalesced |-> r.coalesced, reissued |-> FALSE,
                         tx |-> r.tx, threw |-> r.threw,
                         invoked |-> NoCallback, pre |-> PreOf(universe)])

\* artnet.set(universe, channel, values, callback)
SetOn(universes, channels, lists, maxCalls) ==
    \E universe \in universes, channel \in channels, values \in lists :
        /\ nextId < maxCalls
        /\ LET id == nextId + 1
               r == set(Self, universe, channel, values, id)
           IN /\ Commit(r.s)
              /\ nextId' = id
              /\ ticks' = ticks
              /\ Record([op |-> "set", universe |-> universe, id |-> id,
                         refresh |-> FALSE, callback |-> id,
                         changed |-> r.changed, requested |-> r.requested,
                         coalesced |-> r.coalesced, reissued |-> FALSE,
                         tx |-> r.tx, threw |-> r.threw,
                         invoked |-> r.invoked, pre |-> PreOf(universe)])

\* the scheduler under calls on every universe, each call writing a single
\* value to the first channel
Send == SendOn(Universes, MaxCalls)

Set == SetOn(Universes, {1}, SingleValues, MaxCalls)

\* the same calls on universe 0 alone, in longer runs
SendOne == SendOn({0}, MaxSetCalls)

SetOne == SetOn({0}, {1}, SingleValues, MaxSetCalls)

\* the channel store under calls on universe 0 that write single values
\* and lists in and beyond the 512 channels
SendData == SendOn({0}, MaxDataCalls)

SetData == SetOn({0}, StartChannels, ValueLists, MaxDataCalls)

\* the keep-alive interval of a universe fires: send(universe, 512)
RefreshTick ==
    \E universe \in Universes :
        /\ interval[universe] = "armed"
        /\ ticks < MaxTicks
        /\ LET r == send(Self, universe, RefreshTickArg, NoCallback)
           IN /\ Commit(r.s)
              /\ nextId' = nextId
              /\ ticks' = ticks + 1
              /\ Record([op |-> "tick", universe |-> universe, id |-> 0,
                         refresh |-> RefreshTickArg, callback |-> NoCallback,
                         changed |-> FALSE, requested |-> TRUE,
                         coalesced |-> r.coalesced, reissued |-> FALSE,
                         tx |-> r.tx, threw |-> r.threw,
                         invoked |-> NoCallback, pre |-> PreOf(universe)])

\* the throttle timeout of a universe fires
ThrottleExpire ==
    \E universe \in Universes :
        /\ sendThrottle[universe] = "armed"
        /\ \E r \in {throttleTimeout(Self, universe)} :
              /\ Commit(r.s)
              /\ nextId' = nextId
              /\ ticks' = ticks
              /\ Record([op |-> "expire", universe |-> universe, id |-> 0,
                         refresh |-> r.refresh, callback |-> r.callback,
                         changed |-> FALSE, requested |-> r.reissued,
                         coalesced |-> r.coalesced, reissued |-> r.reissued,
                         tx |-> r.tx, threw |-> r.threw,
                         invoked |-> NoCallback, pre |-> PreOf(universe)])

\* artnet.close(), called once
Close ==
    LET r == close(Self)
    IN /\ socket = "open"
       /\ Commit(r.s)
       /\ nextId' = nextId
       /\ ticks' = ticks
       /\ Record([StepInit EXCEPT !.op = "close", !.threw = r.threw,
                                  !.pre = PreNone])

Next ==
    \/ Send
    \/ Set
    \/ RefreshTick
    \/ ThrottleExpire
    \/ Close

Spec == Init /\ [][Next]_vars

NextSet ==
    \/ SendOne
    \/ SetOne
    \/ RefreshTick
    \/ ThrottleExpire
    \/ Close

SpecSet == Init /\ [][NextSet]_vars

NextData ==
    \/ SendData
    \/ SetData
    \/ RefreshTick
    \/ ThrottleExpire
    \/ Close

SpecData == Init /\ [][NextData]_vars

\* the channel store under calls on universe 0 that stay within the 512
\* channels: lists from channel 1 and single values to channel 512
SendStore == SendOn({0}, MaxStoreCalls)

SetStoreFirst == SetOn({0}, {1}, ValueLists, MaxStoreCalls)

SetStoreLast == SetOn({0}, {DmxChannels}, SingleValues, MaxStoreCalls)

NextStore ==
    \/ SendStore
    \/ SetStoreFirst
    \/ SetStoreLast
    \/ RefreshTick
    \/ ThrottleExpire
    \/ Close

SpecStore == Init /\ [][NextStore]_vars

\* calls on universe 0 that write single values to the first and the last
\* channel, on an instance that is never closed, under an event loop that
\* runs the callback of a due throttle timer
SendLive == SendOn({0}, MaxLiveCalls)

SetLive == SetOn({0}, {1, DmxChannels}, SingleValues, MaxLiveCalls)

NextLive ==
    \/ SendLive
    \/ SetLive
    \/ RefreshTick
    \/ ThrottleExpire

SpecLive == Init /\ [][NextLive]_vars /\ WF_vars(ThrottleExpire)

TypeOK ==
    /\ sendAll \in BOOLEAN
    /\ \A u \in Universes :
        /\ data[u] \in [Idx -> Values \cup {Undefined}]
        /\ dataLength[u] >= DmxChannels
        /\ dataChanged[u] >= 0
        /\ interval[u] \in Slots
        /\ sendThrottle[u] \in Slots
        /\ sendCallback[u] \in Callbacks
    /\ socket \in {"open", "closed"}
    /\ nextId \in {0} \cup CallIds
    /\ ticks \in 0..MaxTicks

\* ---------------------------------------------- configuration: the model
\* new Artnet({host, port})
InitConfig ==
    /\ SchedulerInit
    /\ ConfigInit(Hosts, Ports)
    /\ TransportInit(Interfaces)
    /\ codec = CodecIdle
    /\ DiscoveryInit

\* artnet.setHost(h)
SetHost ==
    /\ cfgStep.n < MaxConfigCalls
    /\ \E h \in Hosts :
        LET r == setHost(Config, h) IN
        /\ host' = r.c.host
        /\ port' = r.c.port
        /\ cfgStep' = [cfgStep EXCEPT !.n = @ + 1, !.op = "setHost",
                                      !.arg = h, !.threw = r.threw]
    /\ UNCHANGED <<schedVars, ctorVars, codec, discVars>>

\* artnet.setPort(p)
SetPort ==
    /\ cfgStep.n < MaxConfigCalls
    /\ \E p \in Ports :
        LET r == setPort(Config, p) IN
        /\ host' = r.c.host
        /\ port' = r.c.port
        /\ cfgStep' = [cfgStep EXCEPT
                          !.n = @ + 1, !.op = "setPort", !.arg = p,
                          !.threw = r.threw,
                          !.refused = IF r.threw THEN @ \cup {p} ELSE @]
    /\ UNCHANGED <<schedVars, ctorVars, codec, discVars>>

\* the bind started by the constructor completes
BindCallback ==
    /\ transport.bind = "binding"
    /\ transport' = bindCallback(transport)
    /\ UNCHANGED <<schedVars, config, host, port, cfgStep, codec, discVars>>

\* sends on universe 0 between the configuration calls
SendConfig == SendOn({0}, MaxConfigSends)

NextConfig ==
    \/ SetHost
    \/ SetPort
    \/ BindCallback
    \/ SendConfig
    \/ ThrottleExpire

SpecConfig == InitConfig /\ [][NextConfig]_vars

\* ------------------------------------------------------ codec: the model
Signature == <<65, 114, 116, 45, 78, 101, 116, 0>>

\* channel buffers of 512 byte values
Patterns == {"zero", "full", "ramp", "ends"}
BufferOf(pattern) ==
    [i \in 0..(DmxChannels - 1) |->
        CASE pattern = "zero" -> 0
          [] pattern = "full" -> 255
          [] pattern = "ramp" -> i % 256
          [] OTHER -> IF i \in {0, DmxChannels - 1} THEN 200 ELSE 0]

\* the fields of an instance artdmxPackage reads, for one universe
DmxInstance(universe, pattern) ==
    [data |-> [u \in {universe} |-> BufferOf(pattern)],
     dataLength |-> [u \in {universe} |-> DmxChannels]]

CodecUniverses == {0, 1, 255, 256, 32767}
DmxInputs ==
    [kind : {"dmx"}, universe : CodecUniverses, pattern : Patterns,
     length : {2, 3, 511, DmxChannels}]
TriggerInputs ==
    [kind : {"trigger"}, oem : {0, 4660, 65535}, key : {0, 255},
     subkey : {0, 1}]
PollInputs == [kind : {"poll"}]

\* ArtPollReply datagrams: the bytes parseArtPollReply reads, with bits set
\* outside the masks as well, cut at lengths around every length test
ReplyLengths == {12, 19, 20, 187, 190, 194, 239}
ReplyInputs ==
    [kind : {"reply"}, length : ReplyLengths,
     netSwitch : {0, 2, 130, 255}, subSwitch : {0, 5, 245},
     swIn : {<<1, 2, 3, 4>>, <<129, 0, 255, 16>>},
     swOut : {<<0, 0, 0, 0>>, <<15, 46, 7, 240>>}]

ArtPollReply(in) ==
    LET full == [k \in 1..239 |->
                   LET i == k - 1 IN
                   CASE i < 8 -> Signature[k]
                     [] i = 8 -> 0
                     [] i = 9 -> 33
                     [] i \in 10..13 -> <<10, 0, 0, 7>>[i - 9]
                     [] i = 18 -> in.netSwitch
                     [] i = 19 -> in.subSwitch
                     [] i = 173 -> 4
                     [] i \in 186..189 -> in.swIn[i - 185]
                     [] i \in 190..193 -> in.swOut[i - 189]
                     [] OTHER -> 0]
    IN SubSeq(full, 1, in.length)

CodecInputs == DmxInputs \cup TriggerInputs \cup PollInputs \cup ReplyInputs

InitCodec ==
    /\ SchedulerInit
    /\ ConfigInit({GlobalBroadcast}, {ArtNetPort})
    /\ TransportInit({NoInterface})
    /\ codec \in [op : {"none"}, in : CodecInputs, out : {<<>>}]
    /\ DiscoveryInit

Apply(op, out) ==
    /\ codec' = [codec EXCEPT !.op = op, !.out = out]
    /\ UNCHANGED <<schedVars, ctorVars, host, port, cfgStep, discVars>>

\* artdmxPackage(universe, length) on a buffer of 512 bytes
ArtDmxPackage ==
    /\ codec.op = "none"
    /\ codec.in.kind = "dmx"
    /\ Apply("artdmxPackage",
             artdmxBuffer(DmxInstance(codec.in.universe, codec.in.pattern),
                          codec.in.universe, codec.in.length))

\* triggerPackage(oem, key, subkey)
TriggerPackage ==
    /\ codec.op = "none"
    /\ codec.in.kind = "trigger"
    /\ Apply("triggerPackage",
             triggerPackage(codec.in.oem, codec.in.key, codec.in.subkey))

\* createArtPollPacket()
CreateArtPollPacket ==
    /\ codec.op = "none"
    /\ codec.in.kind = "poll"
    /\ Apply("createArtPollPacket", createArtPollPacket)

\* parseArtPollReply(msg)
ParseArtPollReply ==
    /\ codec.op = "none"
    /\ codec.in.kind = "reply"
    /\ Apply("parseArtPollReply", parseArtPollReply(ArtPollReply(codec.in)))

NextCodec ==
    \/ ArtDmxPackage
    \/ TriggerPackage
    \/ CreateArtPollPacket
    \/ ParseArtPollReply

SpecCodec == InitCodec /\ [][NextCodec]_vars

\* -------------------------------------------------- discovery: the model
\* The socket of a session is a transport of its own: bind succeeds, its
\* callback runs before the timeout timer can fire (Node completes the bind
\* of a numeric address on the next tick, timers run after it), datagrams
\* are delivered while the socket is bound and not closed, in any number
\* and order.

\* "Check Art-Net\0"
isArtNet(msg) ==
    /\ ByteAt(msg, 0) = 65
    /\ ByteAt(msg, 1) = 114
    /\ ByteAt(msg, 2) = 116
    /\ ByteAt(msg, 3) = 45
    /\ ByteAt(msg, 4) = 78
    /\ ByteAt(msg, 5) = 101
    /\ ByteAt(msg, 6) = 116
    /\ ByteAt(msg, 7) = 0

\* variant: every Art-Net packet is taken for a reply
isArtPollReply_anyOpCode(msg) ==
    isArtNet(msg)

\* isArtNet && msg[8] === 0x00 && msg[9] === 0x21
isArtPollReply(msg) ==
    isArtNet(msg) /\ ByteAt(msg, 8) = 0 /\ ByteAt(msg, 9) = 33

\* the "message" handler on the list `nodes`
onMessage(nodes, msg, rinfo) ==
    IF Len(msg) < 12
    THEN [nodes |-> nodes, threw |-> FALSE]
    ELSE IF ~isArtPollReply(msg)
    THEN [nodes |-> nodes, threw |-> FALSE]
    ELSE LET info == parseArtPollReply(msg) IN
         IF \E j \in DOMAIN nodes : nodes[j].ip = rinfo.address
         THEN [nodes |-> nodes, threw |-> FALSE]
         ELSE [nodes |-> Append(nodes, [ip |-> rinfo.address,
                                        port |-> rinfo.port, info |-> info]),
               threw |-> FALSE]

\* variant: the timer callback leaves the socket open
closeSocket_skip(ss) ==
    ss

\* socket.close()
closeSocket(ss) ==
    [ss EXCEPT !.sock = "closed"]

\* variant: the timer callback does not settle the promise
resolve_never(ss, nodes) ==
    ss

\* resolve(this.discoveredNodes): only the first call settles the promise
resolve(ss, nodes) ==
    [ss EXCEPT !.resolves = @ + 1,
               !.result = IF ss.resolves = 0 THEN nodes ELSE @]

\* the callback of bind: setBroadcast(true), send the ArtPoll packet
onListening(ss) ==
    [ss EXCEPT !.sock = "bound", !.polls = @ + 1]

\* the callback of setTimeout
onTimeout(ss, nodes) ==
    resolve(closeSocket([ss EXCEPT !.timer = "fired"]), nodes)

\* datagrams a socket on port 6454 receives: a full ArtPollReply, one from
\* another source port cut to the 12 bytes the handler asks for, one cut to
\* 11 bytes, one
\* with a changed signature byte, one with the OpCode bytes swapped, the
\* instance's own ArtPoll broadcast, and an empty datagram
ValidKinds == {"full", "header"}
InvalidKinds == {"truncated", "badSignature", "badOpCode", "poll", "empty"}
FullReply ==
    ArtPollReply([length |-> 239, netSwitch |-> 2, subSwitch |-> 5,
                  swIn |-> <<1, 2, 3, 4>>, swOut |-> <<0, 0, 0, 0>>])
DatagramBytes(kind) ==
    CASE kind = "full" -> FullReply
      [] kind = "header" -> SubSeq(FullReply, 1, 12)
      [] kind = "truncated" -> SubSeq(FullReply, 1, 11)
      [] kind = "badSignature" -> [FullReply EXCEPT ![8] = 1]
      [] kind = "badOpCode" -> [FullReply EXCEPT ![9] = 33, ![10] = 0]
      [] kind = "poll" -> createArtPollPacket
      [] OTHER -> <<>>
Datagrams ==
    {[kind |-> "full", port |-> ArtNetPort],
     [kind |-> "header", port |-> 50000]}
        \cup [kind : InvalidKinds, port : {ArtNetPort}]
Addresses == {"10.0.0.7", "10.0.0.8"}

InitDiscover ==
    /\ SchedulerInit
    /\ sendAll = FALSE
    /\ ConfigInit({GlobalBroadcast}, {ArtNetPort})
    /\ TransportInit({NoInterface})
    /\ codec = CodecIdle
    /\ DiscoveryInit

Invoked == {k \in Sessions : sessions[k].sock # "none"}

\* artnet.discoverNodes(timeout): the executor of the promise
DiscoverNodes ==
    /\ Cardinality(Invoked) < MaxSessions
    /\ LET k == Cardinality(Invoked) + 1 IN
        /\ discoveredNodes' = <<>>
        /\ sessions' = [sessions EXCEPT ![k] =
                           [NoSession EXCEPT !.sock = "binding",
                                             !.timer = "armed"]]
        /\ discStep' = [DiscStepInit EXCEPT !.n = discStep.n, !.op = "discoverNodes",
                                         !.k = k]
    /\ UNCHANGED <<schedVars, ctorVars, host, port, cfgStep, codec>>

\* the callback of socket.bind(6454, ...) of session k
Listening(k) ==
    /\ sessions[k].sock = "binding"
    /\ sessions' = [sessions EXCEPT ![k] = onListening(@)]
    /\ discStep' = [DiscStepInit EXCEPT !.n = discStep.n, !.op = "listening",
                                         !.k = k]
    /\ UNCHANGED <<schedVars, ctorVars, host, port, cfgStep, codec, discoveredNodes>>

\* a valid reply, judged by the datagram alone
ValidReply(msg) ==
    /\ Len(msg) >= 12
    /\ SubSeq(msg, 1, 8) = Signature
    /\ msg[9] = 0
    /\ msg[10] = 33

\* a list of first valid replies per source IP after one more datagram
OwnNext(own, msg, rinfo) ==
    IF ValidReply(msg) /\ \A j \in DOMAIN own : own[j].ip # rinfo.address
    THEN Append(own, [ip |-> rinfo.address, port |-> rinfo.port,
                      info |-> parseArtPollReply(msg)])
    ELSE own

\* the socket of session k delivers a datagram to its "message" handler
Message(k) ==
    /\ sessions[k].sock = "bound"
    /\ discStep.n < MaxDatagrams
    /\ \E d \in Datagrams, address \in Addresses :
        LET msg == DatagramBytes(d.kind)
            rinfo == [address |-> address, port |-> d.port]
            r == onMessage(discoveredNodes, msg, rinfo)
        IN /\ discoveredNodes' = r.nodes
           /\ sessions' =
                [j \in Sessions |->
                   IF j = k
                   THEN [sessions[j] EXCEPT
                           !.own = OwnNext(@, msg, rinfo),
                           !.first = OwnNext(@, msg, rinfo),
                           !.late = @ \/ sessions[j].resolves > 0]
                   ELSE IF sessions[j].timer = "armed"
                        THEN [sessions[j] EXCEPT
                                !.first = OwnNext(@, msg, rinfo)]
                        ELSE sessions[j]]
           /\ discStep' = [n |-> discStep.n + 1, op |-> "message", k |-> k,
                           kind |-> d.kind, address |-> address,
                           port |-> d.port, threw |-> r.threw]
    /\ UNCHANGED <<schedVars, ctorVars, host, port, cfgStep, codec>>

\* the timeout timer of session k fires
Timeout(k) ==
    /\ sessions[k].timer = "armed"
    /\ sessions[k].sock # "binding"
    /\ sessions' = [sessions EXCEPT ![k] = onTimeout(@, discoveredNodes)]
    /\ discStep' = [DiscStepInit EXCEPT !.n = discStep.n, !.op = "timeout",
                                         !.k = k]
    /\ UNCHANGED <<schedVars, ctorVars, host, port, cfgStep, codec, discoveredNodes>>

NextDiscover ==
    \/ DiscoverNodes
    \/ \E k \in Sessions : Listening(k)
    \/ \E k \in Sessions : Message(k)
    \/ \E k \in Sessions : Timeout(k)

SpecDiscover == InitDiscover /\ [][NextDiscover]_vars

\* the event loop runs the callback of a completed bind and of a due timer
SpecDiscoverFair ==
    /\ SpecDiscover
    /\ \A k \in Sessions : WF_vars(Listening(k)) /\ WF_vars(Timeout(k))

\* ------------------------------------------------------------- properties
RoundEven(n) == IF n % 2 = 1 THEN n + 1 ELSE n

FullFrames(tx) == \A k \in DOMAIN tx : tx[k].payload = DmxChannels

\* C1: between two consecutive transmissions of a universe its throttle
\* timer has expired: at most one frame of a universe is transmitted since
\* the last expiry of its throttle timer, whatever caused the frames.
C1_SerializedByThrottle ==
    \A u \in Universes : hist.txInWindow[u] <= 1

\* a delayed replay has just transmitted the second frame of a universe
C1_Witness ==
    /\ step.op = "expire"
    /\ Len(step.tx) = 1
    /\ hist.burst[step.universe].ntx = 2
    /\ hist.txInWindow[step.universe] = 1

\* C2 as stated: two requests for a universe in one throttle window (an
\* opener and one coalesced request, transport open) produce exactly one
\* frame, with the refresh flag and handler of the first request.
C2_ExactlyOneFrame ==
    \A u \in Universes :
        (hist.burst[u].nreq = 2 /\ ~hist.burst[u].closedAtOpen)
            => hist.burst[u].ntx = 1 /\ hist.burst[u].faithful

\* C2 amended: the opener transmits one frame at once, the coalesced
\* request adds exactly one more frame when the window's timer expires
\* (the delayed replay), and both frames use the effective refresh flag and
\* the handler of the first request.
C2_OneFramePlusReplay ==
    \A u \in Universes :
        (hist.burst[u].nreq = 2 /\ ~hist.burst[u].closedAtOpen)
            => /\ hist.burst[u].faithful
               /\ hist.burst[u].ntx = IF hist.burst[u].expired THEN 2 ELSE 1

\* the window of an opener with a handler expired after one coalesced
\* request and the replay went out
C2_Witness ==
    /\ step.op = "expire"
    /\ step.reissued
    /\ Len(step.tx) = 1
    /\ hist.burst[step.universe].nreq = 2
    /\ hist.burst[step.universe].ntx = 2
    /\ hist.burst[step.universe].callback # NoCallback

\* C3: a throttle timer that expires with the delayed flag set re-issues
\* exactly one send, with the refresh flag and handler of the call that
\* opened the window; with the flag clear it re-issues and transmits
\* nothing; the handler of a coalesced request is never handed to the
\* transport and never invoked.
C3_ReplayUsesOpener ==
    /\ step.op = "expire" =>
        LET b == hist.burst[step.universe]
        IN /\ step.reissued = step.pre.sendDelayed
           /\ Len(step.tx) <= 1
           /\ step.reissued =>
                /\ step.refresh = EffRefresh(b)
                /\ step.callback = b.callback
                /\ FramesUse(step.tx, EffRefresh(b), b.callback)
                /\ ~sendDelayed[step.universe]
           /\ ~step.reissued => step.tx = <<>>
    /\ \A i \in hist.coalescedIds :
        hist.handed[i] = 0 /\ i \notin hist.invoked

\* a replay transmitted a frame with the opener's handler although a call
\* with its own handler was coalesced into the window
C3_Witness ==
    /\ step.op = "expire"
    /\ step.reissued
    /\ Len(step.tx) = 1
    /\ step.tx[1].callback # NoCallback
    /\ hist.coalescedIds # {}
    /\ hist.burst[step.universe].nreq >= 2

\* C4 as stated: with the transport open, every keep-alive tick is
\* answered by a full 512-byte frame, at once when no window is open and
\* at the expiry of the window otherwise.
C4_TickSendsFullFrame ==
    step.pre.socket = "open" =>
        /\ (step.op = "tick" /\ ~step.coalesced)
              => Len(step.tx) = 1 /\ FullFrames(step.tx)
        /\ (step.op = "expire" /\ step.pre.tickPending)
              => Len(step.tx) = 1 /\ FullFrames(step.tx)

\* C4 amended: a tick with no window open transmits a full frame at once;
\* a tick in an open window transmits nothing and sets the delayed flag;
\* the expiry of that window transmits exactly one frame, which is full if
\* the opener's effective refresh flag is set or DirtyLength is 0.
C4_TickSendsFrame ==
    step.pre.socket = "open" =>
        /\ (step.op = "tick" /\ step.pre.sendThrottle = "none")
              => Len(step.tx) = 1 /\ FullFrames(step.tx)
        /\ (step.op = "tick" /\ step.pre.sendThrottle # "none")
              => step.tx = <<>> /\ sendDelayed[step.universe]
        /\ (step.op = "expire" /\ step.pre.tickPending)
              => /\ Len(step.tx) = 1
                 /\ (EffRefresh(hist.burst[step.universe])
                     \/ step.pre.dataChanged = 0) => FullFrames(step.tx)

\* a coalesced tick was answered by a partial frame
C4_Witness ==
    /\ step.op = "expire"
    /\ step.pre.tickPending
    /\ step.pre.socket = "open"
    /\ Len(step.tx) = 1
    /\ ~FullFrames(step.tx)

\* C5 as stated: a universe has a running keep-alive timer exactly when a
\* send was requested for it and close has not been called.
C5_KeepAliveIffRequested ==
    \A u \in Universes :
        (interval[u] = "armed") <=> (hist.requested[u] /\ socket = "open")

\* C6: close releases the transport and, as long as no operation is called
\* after it, nothing runs after close: no timer is pending, so close is the
\* last handler that ran (no tick, no expiry, no replay, no frame).
C6_CloseCancelsAll ==
    /\ step.op = "close" => socket = "closed"
    /\ (socket = "closed" /\ ~hist.calledAfterClose) =>
        /\ step.op = "close"
        /\ \A u \in Universes :
            interval[u] # "armed" /\ sendThrottle[u] # "armed"

\* close was called while a delayed replay was pending
C6_Witness ==
    /\ socket = "closed"
    /\ ~hist.calledAfterClose
    /\ \E u \in Universes :
        /\ sendThrottle[u] = "cleared"
        /\ interval[u] = "cleared"
        /\ sendDelayed[u]

\* C7 as stated: a send attempt after close fails with an error and arms
\* neither the keep-alive timer nor the throttle timer of its universe.
C7_FailFastAfterClose ==
    (step.op \in {"send", "set"} /\ step.requested
     /\ step.pre.socket = "closed") =>
        /\ step.threw
        /\ interval[step.universe] # "armed"
        /\ sendThrottle[step.universe] # "armed"

\* C8 as stated: a set that changes no stored value invokes its handler at
\* once and neither requests nor causes a transmission.
C8_UnchangedSetIsSilent ==
    (step.op = "set" /\ ~step.changed) =>
        /\ step.invoked = step.callback
        /\ ~step.requested
        /\ step.tx = <<>>

\* the payload the claims C9 state for a frame
C9_Length(f) ==
    IF f.refresh \/ f.dirty = 0 THEN DmxChannels ELSE RoundEven(f.dirty)

\* C9 as stated: every frame carries 512 bytes when its effective refresh
\* flag is set or DirtyLength is 0 and DirtyLength rounded up to even
\* otherwise; no frame is empty; a frame for a never written universe is
\* full.
C9_PayloadLength ==
    \A k \in DOMAIN step.tx :
        LET f == step.tx[k]
        IN /\ f.payload = C9_Length(f)
           /\ f.payload # 0
           /\ (~step.pre.written /\ step.op # "set")
                 => f.payload = DmxChannels

\* C9 amended: the same for every frame transmitted while DirtyLength is
\* at most 512 (all untransmitted writes within channels 1..512).
C9_PayloadLengthInRange ==
    \A k \in DOMAIN step.tx :
        LET f == step.tx[k]
        IN f.dirty <= DmxChannels =>
            /\ f.payload = C9_Length(f)
            /\ f.payload # 0
            /\ (~step.pre.written /\ step.op # "set")
                  => f.payload = DmxChannels

\* a partial frame with an odd DirtyLength went out
C9_Witness ==
    \E k \in DOMAIN step.tx :
        /\ ~step.tx[k].refresh
        /\ step.tx[k].dirty % 2 = 1
        /\ step.tx[k].dirty <= DmxChannels
        /\ step.tx[k].payload = step.tx[k].dirty + 1

\* C10: with sendAll set every transmitted frame is a full frame.
C10_SendAllFullFrames ==
    sendAll => FullFrames(step.tx)

\* with sendAll a replay for a set went out with changes pending
C10_Witness ==
    /\ sendAll
    /\ step.op = "expire"
    /\ Len(step.tx) = 1
    /\ step.tx[1].dirty > 0
    /\ ~hist.burst[step.universe].refresh
\* C11: a setPort call made while the host is 255.255.255.255 throws and
\* leaves the port, the host and the state of every universe as they were;
\* made on any other host (so after a setHost to a unicast address) it does
\* not throw and sets the port to its argument, nothing else.
C11_SetPortRefusedOnBroadcast ==
    [][(cfgStep'.n # cfgStep.n /\ cfgStep'.op = "setPort") =>
         IF host = GlobalBroadcast
         THEN /\ cfgStep'.threw
              /\ UNCHANGED <<host, port, progVars>>
         ELSE /\ ~cfgStep'.threw
              /\ port' = cfgStep'.arg
              /\ UNCHANGED <<host, progVars>>]_vars

\* a port refused on the broadcast host was set by a later setPort, after a
\* setHost, while universe 0 has a throttle window open
C11_Witness ==
    /\ cfgStep.op = "setPort"
    /\ ~cfgStep.threw
    /\ cfgStep.arg \in cfgStep.refused
    /\ port = cfgStep.arg
    /\ port # ArtNetPort
    /\ host = "10.0.0.7"
    /\ sendThrottle[0] = "armed"

\* the source IPs of a node list, and a list without a repeated source IP
IpsOf(nodes) == {nodes[j].ip : j \in DOMAIN nodes}
OneEntryPerIp(nodes) ==
    \A i, j \in DOMAIN nodes : nodes[i].ip = nodes[j].ip => i = j

\* a session between its invocation and the firing of its timer
Running(k) == sessions[k].timer = "armed"

\* C12: at every point of a discovery session the collected list holds at
\* most one entry per source IP, and its entry for an IP is the one built
\* from the first valid reply from that IP that arrived in the session (on
\* whichever socket of the instance): later replies from that IP neither
\* add an entry nor change it.
C12_FirstReplyPerIp ==
    \A k \in Sessions :
        Running(k) =>
            /\ OneEntryPerIp(discoveredNodes)
            /\ \A i \in DOMAIN discoveredNodes :
                  \A j \in DOMAIN sessions[k].first :
                      discoveredNodes[i].ip = sessions[k].first[j].ip =>
                          discoveredNodes[i] = sessions[k].first[j]

\* C13: every discoverNodes invocation resolves, exactly once and only
\* when its timeout timer fires, with the list collected at that moment,
\* which is empty when no valid reply arrived since the invocation; under
\* a fair event loop every invocation does resolve.
C13_ResolvesOnce ==
    /\ [](\A k \in Sessions :
            /\ sessions[k].resolves <= 1
            /\ sessions[k].resolves = 1 <=> sessions[k].timer = "fired"
            /\ (sessions[k].resolves = 1 /\ sessions[k].first = <<>>) =>
                  sessions[k].result = <<>>)
    /\ [][\A k \in Sessions :
            sessions'[k].resolves # sessions[k].resolves =>
                sessions'[k].result = discoveredNodes]_vars
    /\ \A k \in Sessions :
          (sessions[k].timer = "armed") ~> (sessions[k].resolves = 1)

\* a session resolved with the empty list although datagrams arrived: none
\* of them was a valid reply
C13_Witness ==
    /\ sessions[1].resolves = 1
    /\ sessions[1].result = <<>>
    /\ sessions[1].first = <<>>
    /\ discStep.n = MaxDatagrams
    /\ discStep.op = "timeout"
    /\ sessions[2].sock = "none"

\* what the claim calls discarded, read from the bytes of the datagram
C14_Discarded(msg) ==
    \/ Len(msg) < 12
    \/ \E i \in 1..8 : msg[i] # Signature[i]
    \/ <<msg[9], msg[10]>> # <<0, 33>>

\* C14: a datagram shorter than 12 bytes, or without the signature, or
\* whose bytes 8-9 are not (0x00, 0x21) leaves the collected list unchanged
\* and raises no error; every other datagram from a source IP without an
\* entry in the list appends exactly one entry, {ip, port, info} of that
\* datagram.
C14_DiscardOrAppend ==
    [][discStep'.n # discStep.n =>
         LET msg == DatagramBytes(discStep'.kind) IN
         /\ ~discStep'.threw
         /\ IF C14_Discarded(msg)
            THEN discoveredNodes' = discoveredNodes
            ELSE discStep'.address \notin IpsOf(discoveredNodes) =>
                   discoveredNodes' =
                     Append(discoveredNodes,
                            [ip |-> discStep'.address, port |-> discStep'.port,
                             info |-> parseArtPollReply(msg)])]_vars

\* a 12-byte reply from a second source IP was appended
C14_Witness ==
    /\ discStep.op = "message"
    /\ discStep.kind = "header"
    /\ discStep.n = 2
    /\ Len(discoveredNodes) = 2
    /\ discoveredNodes[2].ip = discStep.address
    /\ discoveredNodes[2].port = 50000
    /\ discoveredNodes[2].info.universe = 0

\* C15: each discoverNodes call works on a list of its own: the list a call
\* resolves with holds exactly the first valid reply of every source IP
\* that the call's own socket delivered between invocation and timeout,
\* also when two calls on the same instance overlap.
C15_OwnListPerCall ==
    \A k \in Sessions :
        sessions[k].resolves >= 1 => sessions[k].result = sessions[k].own

\* the phase of a session
Phase(ss) ==
    IF ss.sock = "none" THEN "IDLE"
    ELSE IF ss.resolves > 0 THEN "DONE"
    ELSE IF ss.polls = 0 THEN "POLLING"
    ELSE "COLLECTING"

\* C16: a session passes through IDLE, POLLING, COLLECTING, DONE in this
\* order: exactly one ArtPoll is transmitted per invocation, before the
\* session resolves, never a second one, and no datagram is handled by a
\* session that is DONE.
C16_PhasesInOrder ==
    [][\A k \in Sessions :
         LET p == Phase(sessions[k])
             q == Phase(sessions'[k])
         IN /\ \/ q = p
               \/ <<p, q>> \in {<<"IDLE", "POLLING">>,
                                <<"POLLING", "COLLECTING">>,
                                <<"COLLECTING", "DONE">>}
            /\ sessions'[k].polls <= 1
            /\ q \in {"COLLECTING", "DONE"} => sessions'[k].polls = 1
            /\ ~sessions'[k].late
            /\ p = "DONE" => sessions'[k].own = sessions[k].own]_vars

\* a session that collected a reply is DONE, after exactly one ArtPoll,
\* while a later session is collecting
C16_Witness ==
    /\ Phase(sessions[1]) = "DONE"
    /\ sessions[1].polls = 1
    /\ sessions[1].sock = "closed"
    /\ Len(sessions[1].own) = 1
    /\ Phase(sessions[2]) = "COLLECTING"

\* C17: universes are independent.  A call or timer callback for universe
\* u leaves the channel buffer, the dirty length, the throttle timer, the
\* delayed flag and the keep-alive timer of every other universe as they
\* were, and a send or set request for a universe whose own throttle window
\* is closed transmits at once (transport open), whatever the throttle
\* state of the other universes.
C17_UniversesIndependent ==
    [][step'.op \in {"send", "set", "tick", "expire"} =>
         /\ \A v \in Universes \ {step'.universe} :
               /\ data'[v] = data[v]
               /\ dataLength'[v] = dataLength[v]
               /\ dataChanged'[v] = dataChanged[v]
               /\ sendThrottle'[v] = sendThrottle[v]
               /\ sendRefresh'[v] = sendRefresh[v]
               /\ sendCallback'[v] = sendCallback[v]
               /\ sendDelayed'[v] = sendDelayed[v]
               /\ interval'[v] = interval[v]
         /\ ( /\ step'.op \in {"send", "set", "tick"}
              /\ step'.requested
              /\ socket = "open"
              /\ sendThrottle[step'.universe] = "none" ) =>
                /\ Len(step'.tx) = 1
                /\ step'.tx[1].universe = step'.universe]_vars

\* a request transmitted at once while the window of another universe was
\* open
C17_Witness ==
    /\ step.op \in {"send", "set"}
    /\ Len(step.tx) = 1
    /\ step.pre.sendThrottle = "none"
    /\ \E v \in Universes \ {step.universe} :
          /\ sendThrottle[v] = "armed"
          /\ interval[v] = "armed"

\* the packets of the three encoders
Encoders == {"artdmxPackage", "triggerPackage", "createArtPollPacket"}

\* C18: every packet of the three encoders (ArtDmx, ArtTrigger, ArtPoll)
\* begins with the 8 bytes "Art-Net" 0 and carries the protocol version 14
\* high byte first, (0, 14), at offsets 10 and 11; the ArtPoll packet is 14
\* bytes long and ends with TalkToMe 0 and Priority 0.
C18_SignatureAndVersion ==
    codec.op \in Encoders =>
        /\ Len(codec.out) >= 12
        /\ SubSeq(codec.out, 1, 8) = Signature
        /\ ByteAt(codec.out, 10) = 0
        /\ ByteAt(codec.out, 11) = 14
        /\ codec.op = "createArtPollPacket" =>
              /\ Len(codec.out) = 14
              /\ ByteAt(codec.out, 12) = 0
              /\ ByteAt(codec.out, 13) = 0

\* what a receiver reads from an ArtDmx frame: universe low byte at offset
\* 14, high byte at 15, length high byte at 16, low byte at 17, payload
\* from offset 18
DecodeArtDmx(pkt) ==
    [universe |-> ByteAt(pkt, 14) + 256 * ByteAt(pkt, 15),
     length |-> 256 * ByteAt(pkt, 16) + ByteAt(pkt, 17),
     payload |-> SubSeq(pkt, 19, Len(pkt))]

\* C19: for every universe in 0..32767 and every buffer of 512 byte values
\* the ArtDmx frame decodes to the same universe, its length field equals
\* the number of payload bytes, the payload is the beginning of the buffer,
\* and a full-refresh frame (length 512) carries length 512 and the whole
\* buffer.
C19_ArtDmxRoundTrip ==
    codec.op = "artdmxPackage" =>
        LET d == DecodeArtDmx(codec.out)
            buffer == BufferOf(codec.in.pattern)
        IN /\ d.universe = codec.in.universe
           /\ d.length = Len(d.payload)
           /\ \A k \in 1..Len(d.payload) : d.payload[k] = buffer[k - 1]
           /\ codec.in.length = DmxChannels => d.length = DmxChannels

\* a full-refresh frame of the highest universe with a buffer whose bytes
\* differ was encoded
C19_Witness ==
    /\ codec.op = "artdmxPackage"
    /\ codec.in.universe = 32767
    /\ codec.in.length = DmxChannels
    /\ codec.in.pattern = "ramp"
    /\ Len(codec.out) = 18 + DmxChannels
    /\ ByteAt(codec.out, 15) = 127
    /\ ByteAt(codec.out, 18 + 300) = 44

\* C20: for every ArtPollReply of at least 194 bytes universesIn[i] and
\* universesOut[i] (i in 0..3) are ((byte18 & 0x7F) << 8) | ((byte19 & 0x0F)
\* << 4) | low nibble of SwIn[i] / SwOut[i], given here in arithmetic, so
\* they lie in 0..32767; each list has at most four entries.
C20_Expected(in, sw) ==
    (in.netSwitch % 128) * 256 + (in.subSwitch % 16) * 16 + (sw % 16)

C20_ComposedUniverses ==
    codec.op = "parseArtPollReply" =>
        /\ Len(codec.out.universesIn) <= 4
        /\ Len(codec.out.universesOut) <= 4
        /\ codec.in.length >= 194 =>
              /\ Len(codec.out.universesIn) = 4
              /\ Len(codec.out.universesOut) = 4
              /\ \A k \in 1..4 :
                    /\ codec.out.universesIn[k] =
                          C20_Expected(codec.in, codec.in.swIn[k])
                    /\ codec.out.universesOut[k] =
                          C20_Expected(codec.in, codec.in.swOut[k])
                    /\ codec.out.universesIn[k] \in 0..32767
                    /\ codec.out.universesOut[k] \in 0..32767

\* NetSwitch 2, SubSwitch 5, SwIn[0] 1 gave universe 593; the bytes carried
\* bits outside the masks
C20_Witness ==
    /\ codec.op = "parseArtPollReply"
    /\ codec.in.length >= 194
    /\ codec.in.netSwitch = 130
    /\ codec.in.subSwitch = 245
    /\ codec.in.swIn[1] = 129
    /\ codec.out.universesIn[1] = 593
    /\ codec.out.universesOut[2] = 606

\* C21: the legacy universe field of a decoded ArtPollReply is the first
\* entry of universesIn when that list is not empty, the universe composed
\* from byte 186 when the list is empty but the datagram is longer than 186
\* bytes, and 0 for every shorter datagram, whatever its NetSwitch and
\* SubSwitch bytes are.
C21_LegacyUniverse ==
    codec.op = "parseArtPollReply" =>
        IF codec.out.universesIn # <<>>
        THEN codec.out.universe = codec.out.universesIn[1]
        ELSE IF codec.in.length > 186
        THEN codec.out.universe = C20_Expected(codec.in, codec.in.swIn[1])
        ELSE codec.out.universe = 0

\* the configured destination is a broadcast-style address
BroadcastStyle(h) == h \in {GlobalBroadcast, "10.0.0.255"}

\* the constructor and the bind it started are done
Constructed == transport.bind # "binding"

C23_OnePendingSend ==
    \A u \in Universes :
        /\ sendDelayed[u] \in BOOLEAN
        /\ (socket = "open" /\ sendDelayed[u]) => sendThrottle[u] = "armed"
        /\ (step.universe = u /\ step.coalesced) =>
               /\ step.tx = <<>>
               /\ step.pre.sendThrottle # "none"
               /\ sendDelayed[u]
        /\ (step.universe = u /\ step.op = "expire" /\ socket = "open") =>
               /\ ~sendDelayed[u]
               /\ ~step.coalesced
               /\ Len(step.tx) = IF step.pre.sendDelayed THEN 1 ELSE 0

\* two requests were coalesced into one window and its expiry replayed
\* one frame
C23_Witness ==
    /\ socket = "open"
    /\ step.op = "expire"
    /\ step.pre.sendDelayed
    /\ hist.burst[step.universe].nreq = 3
    /\ Len(step.tx) = 1
    /\ ~sendDelayed[step.universe]

\* C24: value-equality gate.  A set that stores no new value (every value
\* it writes is the one its channel already holds) leaves dataChanged of
\* its universe as it was before the call; and a universe no set has
\* written to has dataChanged 0 and holds 0 in each of its 512 channels,
\* so that writing zeros to it leaves dataChanged 0.
C24_ValueEqualityGate ==
    /\ [](\A u \in Universes :
             ~hist.written[u] =>
                 /\ dataChanged[u] = 0
                 /\ \A i \in Idx : i < DmxChannels => data[u][i] = 0)
    /\ [][\A u \in Universes :
             (step'.op = "set" /\ step'.universe = u /\ ~step'.changed) =>
                 dataChanged'[u] = dataChanged[u]]_vars

\* the same value was written twice in a row while a change was pending:
\* the second set left dataChanged at the 1 it found
C24_Witness ==
    /\ step.op = "set"
    /\ ~step.changed
    /\ step.pre.written
    /\ step.pre.dataChanged = 1
    /\ dataChanged[step.universe] = 1
    /\ data[step.universe][0] = 1

\* the length the indices a step changes in universe u reach: the highest
\* index whose stored value the step changed, plus 1, or 0 without a change
C25_ChangedLength(u) ==
    LET changed == {i \in Idx : data'[u][i] # data[u][i]}
    IN IF changed = {}
       THEN 0
       ELSE 1 + CHOOSE m \in changed : \A j \in changed : j <= m

\* a step that hands a frame of universe u to the transport
C25_Transmits(st, u) ==
    st.universe = u /\ (st.tx # <<>> \/ st.threw)

\* C25: a set of a single value or a list that transmits nothing leaves
\* dataChanged of its universe at the maximum of its previous value and
\* the highest index whose stored value changed, plus 1; dataChanged
\* decreases only in a step that hands a frame of the universe to the
\* transport; and it stays within 512 while no index beyond the 512
\* channels was written.
C25_DirtyLengthIsMax ==
    /\ [](\A u \in Universes :
             dataLength[u] = DmxChannels => dataChanged[u] <= DmxChannels)
    /\ [][\A u \in Universes :
             /\ (step'.op = "set" /\ step'.universe = u
                 /\ ~C25_Transmits(step', u)) =>
                    dataChanged'[u] =
                        Max(dataChanged[u], C25_ChangedLength(u))
             /\ dataChanged'[u] < dataChanged[u] =>
                    C25_Transmits(step', u)]_vars

\* a list changed both channels 1 and 2 in an open window, then a set
\* changed channel 1 back: dataChanged stayed at 2
C25_Witness ==
    /\ step.op = "set"
    /\ step.changed
    /\ step.coalesced
    /\ step.pre.dataChanged = 2
    /\ dataChanged[step.universe] = 2
    /\ data[step.universe][0] = 0
    /\ data[step.universe][1] = 1

\* C26: dataChanged of a universe is reset to 0 exactly when a frame of
\* that universe is handed to the transport.  Every step that hands one
\* over (also to a closed transport, whose send throws) ends with
\* dataChanged 0; a step that hands none over never lowers dataChanged;
\* and a send request coalesced into an open window leaves it as it is.
C26_ResetOnHandOver ==
    [][\A u \in Universes :
          /\ C25_Transmits(step', u) => dataChanged'[u] = 0
          /\ ~C25_Transmits(step', u) => dataChanged'[u] >= dataChanged[u]
          /\ (step'.universe = u /\ step'.coalesced) =>
                /\ ~C25_Transmits(step', u)
                /\ step'.op \in {"send", "tick"} =>
                      dataChanged'[u] = dataChanged[u]]_vars

\* two requests were coalesced into an open window, a change among them;
\* dataChanged stayed at 1 until the replay handed its frame over
C26_Witness ==
    /\ step.op = "expire"
    /\ Len(step.tx) = 1
    /\ step.pre.dataChanged = 1
    /\ dataChanged[step.universe] = 0
    /\ hist.burst[step.universe].nreq = 3
    /\ socket = "open"

\* C27: no change is lost by partial frames.  While every write to a
\* universe stayed within its 512 channels, the receiver holds, right
\* after each step that transmits a frame of the universe, the values the
\* universe's channel buffer holds.
C27_ReceiverFollowsBuffer ==
    \A u \in Universes :
        (step.universe = u /\ step.tx # <<>> /\ dataLength[u] = DmxChannels)
            => \A i \in Channels : hist.receiver[u][i] = data[u][i]

\* after a frame that carried channel 512, a frame of two bytes carried a
\* change of channel 1: the receiver holds both
C27_Witness ==
    /\ step.tx # <<>>
    /\ step.tx[1].payload = 2
    /\ dataLength[step.universe] = DmxChannels
    /\ data[step.universe][0] = 1
    /\ data[step.universe][DmxChannels - 1] = 1
    /\ hist.receiver[step.universe] =
           [i \in Channels |-> data[step.universe][i]]

\* C28: before close, between two events, dataChanged of a universe is
\* above 0 only while the throttle timer of the universe is armed and its
\* delayed flag is set: every change not yet transmitted has its replay
\* scheduled.
C28_PendingChangeHasReplay ==
    socket = "open" =>
        \A u \in Universes :
            dataChanged[u] > 0 =>
                sendThrottle[u] = "armed" /\ sendDelayed[u]

\* a set changed a value while the window of its universe was open: the
\* change waits, and the replay is scheduled
C28_Witness ==
    /\ socket = "open"
    /\ step.op = "set"
    /\ step.changed
    /\ step.coalesced
    /\ dataChanged[step.universe] > 0
    /\ sendThrottle[step.universe] = "armed"
    /\ sendDelayed[step.universe]
    /\ ~step.pre.sendDelayed

\* C29: with throttle timers that fire, every change a set makes to one of
\* the 512 channels is eventually covered by the payload of a transmitted
\* frame of its universe, as long as close is not called; this holds also
\* for a set whose own send request was coalesced into an open window.
\* Whenever changes wait for a frame, a state follows in which none waits.
C29_ChangeEventuallyTransmitted ==
    (\E u \in Universes : hist.pending[u] # {})
        ~> (\A u \in Universes : hist.pending[u] = {})

\* a set changed a channel in an open window, its send request was
\* coalesced, and the replay at the expiry of the window covered the change
C29_Witness ==
    /\ socket = "open"
    /\ step.op = "expire"
    /\ step.reissued
    /\ step.pre.dataChanged > 0
    /\ step.tx # <<>>
    /\ step.tx[1].payload >= step.pre.dataChanged
    /\ hist.pending[step.universe] = {}
    /\ hist.coalescedIds # {}

\* C30: the completion handler supplied to a set or send call is invoked
\* at most once for that call.  The transport invokes the handler of every
\* frame handed to it once, and set invokes the handler itself when it
\* sends nothing: the two together count at most 1 for every call.
C30_HandlerAtMostOnce ==
    \A i \in CallIds :
        hist.handed[i] + (IF i \in hist.invoked THEN 1 ELSE 0) <= 1

\* C31: after any sequence of setHost and setPort calls, whenever the host
\* is the global broadcast address 255.255.255.255 the port is the port the
\* instance was constructed with.
C31_BroadcastKeepsConstructedPort ==
    host = GlobalBroadcast => port = config.port

====
